---- MODULE Spec2Model ----
(***************************************************************************)
(* Model of src/ui.js of the image block tool: the Ui class (status        *)
(* markers on the wrapper, preloader, media element creation, caption)     *)
(* and the module-level helper getResizedUrl.                               *)
(*                                                                          *)
(* A JavaScript string is modelled as the sequence of its UTF-16 code      *)
(* units (natural numbers); S("...") writes an ASCII literal that way.     *)
(***************************************************************************)
EXTENDS Integers, Sequences, FiniteSets, TLC

(***************************************************************************)
(* Bounds of the model.                                                     *)
(***************************************************************************)
\* longest raw path (in code units) after the storage host in an input URL
MaxPathLen == 3
\* how many times the path segments of an input URL were percent-encoded
MaxLevel == 2
\* how many fillImage calls a behaviour of the Ui makes
MaxFill == 2

(***************************************************************************)
(* Strings.                                                                 *)
(***************************************************************************)
\* the printable ASCII characters 32..95 and 97..126 (the grave accent, 96, cannot
\* be written in a string literal and is not used)
AsciiLow == " !\"#$%&'()*+,-./0123456789:;<=>?@ABCDEFGHIJKLMNOPQRSTUVWXYZ[\\]^_"

AsciiHigh == "abcdefghijklmnopqrstuvwxyz{|}~"

\* the code of each of these characters, as a table
CodeOf ==
  [c \in {SubSeq(AsciiLow, i, i) : i \in 1..Len(AsciiLow)}
         \cup {SubSeq(AsciiHigh, i, i) : i \in 1..Len(AsciiHigh)} |->
     IF \E i \in 1..Len(AsciiLow) : SubSeq(AsciiLow, i, i) = c
     THEN 31 + (CHOOSE i \in 1..Len(AsciiLow) : SubSeq(AsciiLow, i, i) = c)
     ELSE 96 + (CHOOSE i \in 1..Len(AsciiHigh) : SubSeq(AsciiHigh, i, i) = c)]

Ord(c) == CodeOf[c]

S(str) == [i \in 1..Len(str) |-> Ord(SubSeq(str, i, i))]

\* String.prototype.includes
Includes(s, t) ==
  \E i \in 0..(Len(s) - Len(t)) : SubSeq(s, i + 1, i + Len(t)) = t

\* the concatenation of the sequences ss[lo], ..., ss[hi]
RECURSIVE FlattenRange(_, _, _)
FlattenRange(ss, lo, hi) ==
  IF lo > hi THEN <<>>
  ELSE IF lo = hi THEN ss[lo]
  ELSE LET mid == (lo + hi) \div 2
       IN FlattenRange(ss, lo, mid) \o FlattenRange(ss, mid + 1, hi)

Flatten(ss) == FlattenRange(ss, 1, Len(ss))

\* position (1-based) of the first occurrence of t in s, 0 if none
IndexOf(s, t) ==
  LET hits == {i \in 1..(Len(s) - Len(t) + 1) : SubSeq(s, i, i + Len(t) - 1) = t}
  IN IF hits = {} THEN 0 ELSE CHOOSE i \in hits : \A j \in hits : i <= j

\* String.prototype.split with a non-empty separator
RECURSIVE Split(_, _)
Split(s, sep) ==
  LET i == IndexOf(s, sep) IN
  IF i = 0 THEN <<s>>
  ELSE <<SubSeq(s, 1, i - 1)>> \o Split(SubSeq(s, i + Len(sep), Len(s)), sep)

\* Array.prototype.join
Join(parts, sep) ==
  Flatten([i \in 1..(2 * Len(parts) - 1) |->
             IF i % 2 = 1 THEN parts[(i + 1) \div 2] ELSE sep])

\* String.prototype.endsWith, the meaning of the regular expressions /\.mp4$/ and /\.mp3$/
EndsWith(s, t) ==
  Len(s) >= Len(t) /\ SubSeq(s, Len(s) - Len(t) + 1, Len(s)) = t

(***************************************************************************)
(* UTF-8 (TextEncoder and the octet handling of the URI functions).        *)
(***************************************************************************)
IsHighSurrogate(u) == u >= 55296 /\ u <= 56319
IsLowSurrogate(u) == u >= 56320 /\ u <= 57343

\* the UTF-8 octets of one code point
Utf8OfCodePoint(cp) ==
  IF cp < 128 THEN <<cp>>
  ELSE IF cp < 2048 THEN <<192 + (cp \div 64), 128 + (cp % 64)>>
  ELSE IF cp < 65536
    THEN <<224 + (cp \div 4096), 128 + ((cp \div 64) % 64), 128 + (cp % 64)>>
  ELSE <<240 + (cp \div 262144), 128 + ((cp \div 4096) % 64),
         128 + ((cp \div 64) % 64), 128 + (cp % 64)>>

\* the UTF-16 code units of one code point
Utf16OfCodePoint(cp) ==
  IF cp < 65536 THEN <<cp>>
  ELSE <<55296 + ((cp - 65536) \div 1024), 56320 + ((cp - 65536) % 1024)>>

\* s[i] is the first half of a surrogate pair
PairAt(s, i) ==
  IsHighSurrogate(s[i]) /\ i < Len(s) /\ IsLowSurrogate(s[i + 1])

\* s[i] is the second half of a surrogate pair
PairEndAt(s, i) == i > 1 /\ PairAt(s, i - 1)

\* new TextEncoder().encode(s): a surrogate pair is one code point, a lone
\* surrogate is replaced by U+FFFD
TextEncode(s) ==
  Flatten([i \in 1..Len(s) |->
    IF PairAt(s, i)
      THEN Utf8OfCodePoint(65536 + (s[i] - 55296) * 1024 + (s[i + 1] - 56320))
    ELSE IF PairEndAt(s, i) THEN <<>>
    ELSE IF IsHighSurrogate(s[i]) \/ IsLowSurrogate(s[i]) THEN Utf8OfCodePoint(65533)
    ELSE Utf8OfCodePoint(s[i])])

(***************************************************************************)
(* decodeURIComponent (ECMA-262 Decode with an empty reserved set).  The   *)
(* result is [threw |-> TRUE] for a URIError, else the decoded string.     *)
(***************************************************************************)
Percent == Ord("%")

IsHexDigit(c) ==
  (c >= 48 /\ c <= 57) \/ (c >= 65 /\ c <= 70) \/ (c >= 97 /\ c <= 102)

HexVal(c) ==
  IF c <= 57 THEN c - 48 ELSE IF c <= 70 THEN c - 55 ELSE c - 87

\* number of leading 1 bits of an octet
LeadingOnes(b) ==
  IF b < 128 THEN 0 ELSE IF b < 192 THEN 1 ELSE IF b < 224 THEN 2
  ELSE IF b < 240 THEN 3 ELSE IF b < 248 THEN 4 ELSE 5

\* s has a well-formed escape %XX at position k
EscapeAt(s, k) ==
  k + 2 <= Len(s) /\ s[k] = Percent /\ IsHexDigit(s[k + 1]) /\ IsHexDigit(s[k + 2])

OctetAt(s, k) == 16 * HexVal(s[k + 1]) + HexVal(s[k + 2])

\* the code point a sequence of n octets encodes, -1 when it is not valid UTF-8
CodePointOfOctets(o) ==
  LET n == Len(o)
      Cont(i) == o[i] >= 128 /\ o[i] < 192
      cp == IF n = 2 THEN (o[1] - 192) * 64 + (o[2] - 128)
            ELSE IF n = 3 THEN (o[1] - 224) * 4096 + (o[2] - 128) * 64 + (o[3] - 128)
            ELSE (o[1] - 240) * 262144 + (o[2] - 128) * 4096
                 + (o[3] - 128) * 64 + (o[4] - 128)
      least == IF n = 2 THEN 128 ELSE IF n = 3 THEN 2048 ELSE 65536
  IN IF (\A i \in 2..n : Cont(i)) /\ cp >= least /\ cp <= 1114111
        /\ ~(cp >= 55296 /\ cp <= 57343)
     THEN cp ELSE -1

\* the outcome of a call: a URIError thrown, or a value returned
URIError == [threw |-> TRUE, value |-> <<>>]

Returned(v) == [threw |-> FALSE, value |-> v]

\* one round of the loop of Decode: st.k is the position, st.out the result so far
DecodeStep(s, st) ==
  LET k == st.k IN
  IF st.threw \/ k > Len(s) THEN st
  ELSE IF s[k] # Percent THEN [st EXCEPT !.k = k + 1, !.out = Append(st.out, s[k])]
  ELSE IF ~EscapeAt(s, k) THEN [st EXCEPT !.threw = TRUE]
  ELSE
    LET b == OctetAt(s, k)
        n == LeadingOnes(b)
    IN IF n = 0 THEN [st EXCEPT !.k = k + 3, !.out = Append(st.out, b)]
       ELSE IF n = 1 \/ n > 4 THEN [st EXCEPT !.threw = TRUE]
       ELSE IF k + 3 * n - 1 > Len(s) THEN [st EXCEPT !.threw = TRUE]
       ELSE IF \E j \in 1..(n - 1) : ~EscapeAt(s, k + 3 * j)
         THEN [st EXCEPT !.threw = TRUE]
       ELSE
         LET octets == [j \in 1..n |-> OctetAt(s, k + 3 * (j - 1))]
             cp == CodePointOfOctets(octets)
         IN IF cp < 0 THEN [st EXCEPT !.threw = TRUE]
            ELSE [st EXCEPT !.k = k + 3 * n, !.out = st.out \o Utf16OfCodePoint(cp)]

\* n rounds of the loop (the first half is evaluated before the second starts)
RECURSIVE DecodeRun(_, _, _)
DecodeRun(s, st, n) ==
  IF n = 0 THEN st
  ELSE IF n = 1 THEN DecodeStep(s, st)
  ELSE LET half == DecodeRun(s, st, n \div 2)
       IN IF half.k > 0 THEN DecodeRun(s, half, n - (n \div 2)) ELSE half

\* the loop ends within Len(s) rounds: each consumes at least one code unit
Decode(s) ==
  LET st == DecodeRun(s, [k |-> 1, out |-> <<>>, threw |-> FALSE], Len(s))
  IN IF st.threw THEN URIError ELSE Returned(st.out)

decodeURIComponent(s) == Decode(s)

(***************************************************************************)
(* JSON values: a string, a number or an object with ordered members.      *)
(***************************************************************************)
JStr(s) == [t |-> "string", s |-> s]

JNum(n) == [t |-> "number", n |-> n]

JObj(members) == [t |-> "object", m |-> members]

Member(name, value) == [name |-> S(name), value |-> value]

\* the decimal digits of a natural number
RECURSIVE Digits(_)
Digits(n) ==
  IF n < 10 THEN <<48 + n>> ELSE Append(Digits(n \div 10), 48 + (n % 10))

HexDigitLower(d) == IF d < 10 THEN 48 + d ELSE 87 + d

\* \uXXXX
UnicodeEscape(u) ==
  S("\\u") \o <<HexDigitLower(u \div 4096), HexDigitLower((u \div 256) % 16),
                HexDigitLower((u \div 16) % 16), HexDigitLower(u % 16)>>

\* QuoteJSONString, without the surrounding quotes
QuoteChars(s) ==
  Flatten([i \in 1..Len(s) |->
    LET c == s[i] IN
    IF c = 8 THEN S("\\b")
    ELSE IF c = 9 THEN S("\\t")
    ELSE IF c = 10 THEN S("\\n")
    ELSE IF c = 12 THEN S("\\f")
    ELSE IF c = 13 THEN S("\\r")
    ELSE IF c = 34 THEN S("\\\"")
    ELSE IF c = 92 THEN S("\\\\")
    ELSE IF PairAt(s, i) \/ PairEndAt(s, i) THEN <<c>>
    ELSE IF c < 32 \/ IsHighSurrogate(c) \/ IsLowSurrogate(c) THEN UnicodeEscape(c)
    ELSE <<c>>])

QuoteJSONString(s) == S("\"") \o QuoteChars(s) \o S("\"")

\* JSON.stringify of a value, without indentation
RECURSIVE JSONStringify(_)
JSONStringify(v) ==
  IF v.t = "string" THEN QuoteJSONString(v.s)
  ELSE IF v.t = "number"
    THEN (IF v.n < 0 THEN S("-") \o Digits(-v.n) ELSE Digits(v.n))
  ELSE S("{")
       \o Join([i \in 1..Len(v.m) |->
                  QuoteJSONString(v.m[i].name) \o S(":") \o JSONStringify(v.m[i].value)],
               S(","))
       \o S("}")

(***************************************************************************)
(* base64FromByteArray of ./base64: the standard base64 alphabet with '='  *)
(* padding.                                                                 *)
(***************************************************************************)
Base64Alphabet ==
  S("ABCDEFGHIJKLMNOPQRSTUVWXYZabcdefghijklmnopqrstuvwxyz0123456789+/")

\* the four characters of the i-th group of three bytes, padded at the end
Base64Group(bytes, i) ==
  LET n == Len(bytes)
      e(x) == Base64Alphabet[x + 1]
      b1 == bytes[3 * i - 2]
      b2 == IF 3 * i - 1 <= n THEN bytes[3 * i - 1] ELSE 0
      b3 == IF 3 * i <= n THEN bytes[3 * i] ELSE 0
  IN <<e(b1 \div 4),
       e((b1 % 4) * 16 + (b2 \div 16)),
       IF 3 * i - 1 <= n THEN e((b2 % 16) * 4 + (b3 \div 64)) ELSE 61,
       IF 3 * i <= n THEN e(b3 % 64) ELSE 61>>

base64FromByteArray(bytes) ==
  Flatten([i \in 1..((Len(bytes) + 2) \div 3) |-> Base64Group(bytes, i)])

(***************************************************************************)
(* getResizedUrl and its constants.                                         *)
(***************************************************************************)
cloudfrontHostname == S("https://d2obrjcl8a4u8e.cloudfront.net")

s3Hostname == S("ntmg-media.s3.us-west-1.amazonaws.com")

s3BucketName == S("ntmg-media")

\* the key left as it is in the URL
DecodeKeyRaw(path) == Returned(path)

\* parts[1].split('/').map((pathPart) => decodeURIComponent(pathPart)).join('/'):
\* the map throws as soon as one segment does
DecodeKey(path) ==
  LET segments == Split(path, S("/"))
      decoded == [i \in 1..Len(segments) |-> decodeURIComponent(segments[i])]
  IN IF \E i \in 1..Len(segments) : decoded[i].threw THEN URIError
     ELSE Returned(Join([i \in 1..Len(segments) |-> decoded[i].value], S("/")))

\* the object literal { bucket: s3BucketName, key, edits: imageEditRequest }
ImageRequest(key, imageEditRequest) ==
  JObj(<<Member("bucket", JStr(s3BucketName)),
         Member("key", JStr(key)),
         Member("edits", imageEditRequest)>>)

\* the JSON text handed to base64 as it is, without TextEncoder
CdnUrlNoTextEncoder(imageRequest) ==
  cloudfrontHostname \o S("/") \o base64FromByteArray(JSONStringify(imageRequest))

\* the template literal of the return statement
CdnUrl(imageRequest) ==
  cloudfrontHostname \o S("/")
  \o base64FromByteArray(TextEncode(JSONStringify(imageRequest)))

\* the host test of the function
MentionsStorage(originalImageUrl) == Includes(originalImageUrl, s3Hostname)

\* getResizedUrl with the test parts.length < 2 in place of parts.length !== 2
getResizedUrlAnyParts(originalImageUrl, imageEditRequest) ==
  IF Len(originalImageUrl) = 0 THEN Returned(<<>>)
  ELSE IF ~MentionsStorage(originalImageUrl) THEN Returned(originalImageUrl)
  ELSE
    LET parts == Split(originalImageUrl, s3Hostname \o S("/")) IN
    IF Len(parts) < 2 THEN Returned(originalImageUrl)
    ELSE
      LET key == DecodeKey(parts[2]) IN
      IF key.threw THEN URIError
      ELSE Returned(CdnUrl(ImageRequest(key.value, imageEditRequest)))

getResizedUrl(originalImageUrl, imageEditRequest) ==
  IF Len(originalImageUrl) = 0 THEN Returned(<<>>)
  ELSE IF ~MentionsStorage(originalImageUrl) THEN Returned(originalImageUrl)
  ELSE
    LET parts == Split(originalImageUrl, s3Hostname \o S("/")) IN
    IF Len(parts) # 2 THEN Returned(originalImageUrl)
    ELSE
      LET key == DecodeKey(parts[2]) IN
      IF key.threw THEN URIError
      ELSE Returned(CdnUrl(ImageRequest(key.value, imageEditRequest)))

(***************************************************************************)
(* The readers of a CDN URL: base64 decoding, UTF-8 decoding and           *)
(* JSON.parse, as the image handler behind the CDN applies them.  Each     *)
(* yields [ok |-> FALSE] on input it does not accept.                      *)
(***************************************************************************)
Rejected == [ok |-> FALSE, v |-> <<>>, next |-> 0]

Accepted(v, next) == [ok |-> TRUE, v |-> v, next |-> next]

\* the value (0..63) of a base64 character, -1 for any other character
Base64Val(c) ==
  IF \E i \in 1..64 : Base64Alphabet[i] = c
  THEN (CHOOSE i \in 1..64 : Base64Alphabet[i] = c) - 1
  ELSE -1

\* the bytes of the i-th group of four characters, or <<-1>> when it is no
\* base64 group; only the last group may be padded
Base64GroupBytes(s, i) ==
  LET a == Base64Val(s[4 * i - 3])
      b == Base64Val(s[4 * i - 2])
      c == Base64Val(s[4 * i - 1])
      d == Base64Val(s[4 * i])
      last == 4 * i = Len(s)
  IN IF a < 0 \/ b < 0 THEN <<-1>>
     ELSE IF last /\ s[4 * i - 1] = 61 /\ s[4 * i] = 61
       THEN (IF b % 16 = 0 THEN <<a * 4 + (b \div 16)>> ELSE <<-1>>)
     ELSE IF last /\ s[4 * i] = 61
       THEN (IF c >= 0 /\ c % 4 = 0
             THEN <<a * 4 + (b \div 16), (b % 16) * 16 + (c \div 4)>>
             ELSE <<-1>>)
     ELSE IF c < 0 \/ d < 0 THEN <<-1>>
     ELSE <<a * 4 + (b \div 16), (b % 16) * 16 + (c \div 4), (c % 4) * 64 + d>>

Base64Decode(s) ==
  IF Len(s) % 4 # 0 THEN Rejected
  ELSE
    LET groups == [i \in 1..(Len(s) \div 4) |-> Base64GroupBytes(s, i)] IN
    IF \E i \in 1..Len(groups) : groups[i] = <<-1>> THEN Rejected
    ELSE Accepted(Flatten(groups), Len(s) + 1)

\* the code units of the character whose first byte is bytes[i]: <<>> for a
\* continuation byte, <<-1>> for an ill-formed sequence
Utf8CharAt(bytes, i) ==
  LET n == LeadingOnes(bytes[i]) IN
  IF n = 0 THEN <<bytes[i]>>
  ELSE IF n = 1 THEN <<>>
  ELSE IF n > 4 \/ i + n - 1 > Len(bytes) THEN <<-1>>
  ELSE LET cp == CodePointOfOctets(SubSeq(bytes, i, i + n - 1))
       IN IF cp < 0 THEN <<-1>> ELSE Utf16OfCodePoint(cp)

\* bytes[i] is a continuation byte that no leading byte before it announces
StrayContinuation(bytes, i) ==
  LeadingOnes(bytes[i]) = 1
  /\ ~\E j \in 1..3 : i - j >= 1 /\ LeadingOnes(bytes[i - j]) > j
                      /\ \A m \in 1..(j - 1) : LeadingOnes(bytes[i - m]) = 1

\* a strict UTF-8 decoder
Utf8Decode(bytes) ==
  LET chars == [i \in 1..Len(bytes) |-> Utf8CharAt(bytes, i)] IN
  IF \E i \in 1..Len(bytes) : chars[i] = <<-1>> \/ StrayContinuation(bytes, i)
  THEN Rejected
  ELSE Accepted(Flatten(chars), Len(bytes) + 1)

\* one character (or escape) of a JSON string: st.i is the position, st.v the
\* characters so far, st.open whether the closing quote is still to come
StringStep(t, st) ==
  LET i == st.i
      take(c, n) == [st EXCEPT !.i = i + n, !.v = Append(st.v, c)]
      fail == [st EXCEPT !.ok = FALSE]
  IN IF ~st.ok \/ ~st.open THEN st
     ELSE IF i > Len(t) THEN fail
     ELSE IF t[i] = 34 THEN [st EXCEPT !.i = i + 1, !.open = FALSE]
     ELSE IF t[i] < 32 THEN fail
     ELSE IF t[i] # 92 THEN take(t[i], 1)
     ELSE IF i + 1 > Len(t) THEN fail
     ELSE
       LET e == t[i + 1] IN
       IF e = 34 \/ e = 92 \/ e = 47 THEN take(e, 2)
       ELSE IF e = Ord("b") THEN take(8, 2)
       ELSE IF e = Ord("f") THEN take(12, 2)
       ELSE IF e = Ord("n") THEN take(10, 2)
       ELSE IF e = Ord("r") THEN take(13, 2)
       ELSE IF e = Ord("t") THEN take(9, 2)
       ELSE IF e = Ord("u") /\ i + 5 <= Len(t) /\ \A j \in 2..5 : IsHexDigit(t[i + j])
         THEN take(4096 * HexVal(t[i + 2]) + 256 * HexVal(t[i + 3])
                   + 16 * HexVal(t[i + 4]) + HexVal(t[i + 5]), 6)
       ELSE fail

RECURSIVE StringRun(_, _, _)
StringRun(t, st, n) ==
  IF n = 0 THEN st
  ELSE IF n = 1 THEN StringStep(t, st)
  ELSE LET half == StringRun(t, st, n \div 2)
       IN IF half.i > 0 THEN StringRun(t, half, n - (n \div 2)) ELSE half

\* the JSON string whose opening quote is at position i - 1
ParseStringChars(t, i) ==
  LET st == StringRun(t, [i |-> i, v |-> <<>>, open |-> TRUE, ok |-> TRUE],
                      Len(t) - i + 1)
  IN IF st.ok /\ ~st.open THEN Accepted(st.v, st.i) ELSE Rejected

IsDigit(c) == c >= 48 /\ c <= 57

RECURSIVE ParseDigits(_, _, _)
ParseDigits(t, i, acc) ==
  IF i <= Len(t) /\ IsDigit(t[i]) THEN ParseDigits(t, i + 1, 10 * acc + (t[i] - 48))
  ELSE Accepted(acc, i)

RECURSIVE ParseValue(_, _)
RECURSIVE ParseMembers(_, _, _)
ParseValue(t, i) ==
  IF i > Len(t) THEN Rejected
  ELSE IF t[i] = 34 THEN
    LET r == ParseStringChars(t, i + 1) IN
    IF r.ok THEN Accepted(JStr(r.v), r.next) ELSE Rejected
  ELSE IF IsDigit(t[i]) THEN
    LET r == ParseDigits(t, i, 0) IN Accepted(JNum(r.v), r.next)
  ELSE IF t[i] = Ord("-") /\ i + 1 <= Len(t) /\ IsDigit(t[i + 1]) THEN
    LET r == ParseDigits(t, i + 1, 0) IN Accepted(JNum(-r.v), r.next)
  ELSE IF t[i] = Ord("{") THEN
    (IF i + 1 <= Len(t) /\ t[i + 1] = Ord("}") THEN Accepted(JObj(<<>>), i + 2)
     ELSE ParseMembers(t, i + 1, <<>>))
  ELSE Rejected

ParseMembers(t, i, acc) ==
  IF i > Len(t) \/ t[i] # 34 THEN Rejected
  ELSE
    LET name == ParseStringChars(t, i + 1) IN
    IF ~name.ok \/ name.next > Len(t) \/ t[name.next] # Ord(":") THEN Rejected
    ELSE
      LET val == ParseValue(t, name.next + 1)
          members == Append(acc, [name |-> name.v, value |-> val.v])
      IN IF ~val.ok \/ val.next > Len(t) THEN Rejected
         ELSE IF t[val.next] = Ord(",") THEN ParseMembers(t, val.next + 1, members)
         ELSE IF t[val.next] = Ord("}") THEN Accepted(JObj(members), val.next + 1)
         ELSE Rejected

\* JSON.parse of a whole text
JSONParse(t) ==
  LET r == ParseValue(t, 1) IN
  IF r.ok /\ r.next = Len(t) + 1 THEN r ELSE Rejected

\* the image request a URL carries after '<cdn-host>/': base64, then UTF-8,
\* then JSON
ReadCdnUrl(url) ==
  LET prefix == cloudfrontHostname \o S("/") IN
  IF Len(url) < Len(prefix) \/ SubSeq(url, 1, Len(prefix)) # prefix THEN Rejected
  ELSE
    LET bytes == Base64Decode(SubSeq(url, Len(prefix) + 1, Len(url))) IN
    IF ~bytes.ok THEN Rejected
    ELSE
      LET text == Utf8Decode(bytes.v) IN
      IF ~text.ok THEN Rejected ELSE JSONParse(text.v)

(***************************************************************************)
(* The URLs and edit requests getResizedUrl is called with.  A URL is a    *)
(* head followed by a path whose segments were percent-encoded inLevel     *)
(* times by whoever produced the URL (encodeURIComponent).                 *)
(***************************************************************************)
Unreserved(c) ==
  IsDigit(c) \/ (c >= 65 /\ c <= 90) \/ (c >= 97 /\ c <= 122)
  \/ c \in {Ord("-"), Ord("_"), Ord("."), Ord("!"), Ord("~"), Ord("*"), Ord("'"),
            Ord("("), Ord(")")}

HexDigitUpper(d) == IF d < 10 THEN 48 + d ELSE 55 + d

PercentEscapes(octets) ==
  Flatten([i \in 1..Len(octets) |->
             <<Percent, HexDigitUpper(octets[i] \div 16), HexDigitUpper(octets[i] % 16)>>])

\* encodeURIComponent of a string without lone surrogates
encodeURIComponent(s) ==
  Flatten([i \in 1..Len(s) |->
    IF Unreserved(s[i]) THEN <<s[i]>>
    ELSE IF PairAt(s, i)
      THEN PercentEscapes(Utf8OfCodePoint(65536 + (s[i] - 55296) * 1024
                                          + (s[i + 1] - 56320)))
    ELSE IF PairEndAt(s, i) THEN <<>>
    ELSE PercentEscapes(Utf8OfCodePoint(s[i]))])

RECURSIVE EncodeTimes(_, _)
EncodeTimes(s, n) ==
  IF n = 0 THEN s ELSE encodeURIComponent(EncodeTimes(s, n - 1))

\* the path with each of its segments encoded n times
EncodedPath(path, n) ==
  LET segments == Split(path, S("/"))
  IN Join([i \in 1..Len(segments) |-> EncodeTimes(segments[i], n)], S("/"))

\* the characters of a raw path: a letter, '%', '/', e-acute and '"'
PathAlphabet == {Ord("a"), Percent, Ord("/"), 233, 34}

Paths == UNION {[1..n -> PathAlphabet] : n \in 0..MaxPathLen}

StorageHead == S("https://") \o s3Hostname \o S("/")

\* what precedes the path: the storage host, nothing, another host, the
\* storage host's text in the path or the query of another host, inside a
\* longer host name, without the '/' after it, and twice
Heads ==
  { StorageHead,
    <<>>,
    S("https://example.com/"),
    S("https://example.com/") \o s3Hostname \o S("/"),
    S("https://example.com/?u=") \o s3Hostname \o S("/"),
    S("https://cdn.") \o s3Hostname \o S("/"),
    S("https://") \o s3Hostname \o S(".example.com/"),
    S("https://") \o s3Hostname,
    StorageHead \o S("a?next=https://") \o s3Hostname \o S("/") }

\* the widths fillImage asks for
Widths == <<640, 750, 828, 1080>>

\* { resize: { width, fit } }
ResizeRequest(width, fit) ==
  JObj(<<[name |-> S("resize"),
          value |-> JObj(<<[name |-> S("width"), value |-> JNum(width)],
                           [name |-> S("fit"), value |-> JStr(S(fit))]>>)]>>)

\* { resize: { height, width, fit } }
ResizeBothRequest(height, width, fit) ==
  JObj(<<[name |-> S("resize"),
          value |-> JObj(<<[name |-> S("height"), value |-> JNum(height)],
                           [name |-> S("width"), value |-> JNum(width)],
                           [name |-> S("fit"), value |-> JStr(S(fit))]>>)]>>)

EditRequests ==
  {ResizeRequest(Widths[1], "cover"), ResizeRequest(Widths[4], "contain"),
   ResizeBothRequest(Widths[2], Widths[3], "cover")}

(***************************************************************************)
(* The Ui class.                                                            *)
(***************************************************************************)
VARIABLES
  readOnly,               \* this.readOnly
  optimizeImages,         \* this.optimizeImages
  appendCaptionOnDemand,  \* this.appendCaptionOnDemand
  classList,              \* this.nodes.wrapper.classList
  wrapperChildren,        \* the children of this.nodes.wrapper, in order
  imageContainer,         \* the children of this.nodes.imageContainer, in order
  imageEl,                \* this.nodes.imageEl: a position in imageContainer, 0 for undefined
  captionHTML,            \* this.nodes.caption.innerHTML
  lastStatus,             \* the argument of the latest toggleStatus call ("none" before the first)
  fillCalls,              \* how many times fillImage was called
  inHead, inPath, inLevel, \* how the URL given to getResizedUrl was made
  originalImageUrl,       \* the arguments of the getResizedUrl call
  imageEditRequest,
  pc,                     \* "call" before getResizedUrl ran, then "returned" or "threw"
  resizedUrl              \* the value getResizedUrl returned

uiVars ==
  <<readOnly, optimizeImages, appendCaptionOnDemand, classList, wrapperChildren,
    imageContainer, imageEl, captionHTML, lastStatus, fillCalls>>

urlVars ==
  <<inHead, inPath, inLevel, originalImageUrl, imageEditRequest, pc, resizedUrl>>

vars == <<uiVars, urlVars>>

\* get CSS(): the classes of the host editor and the tool's own
CSS ==
  [baseClass |-> "cdx-block", loading |-> "cdx-loader", input |-> "cdx-input",
   button |-> "cdx-button",
   wrapper |-> "image-tool", imageContainer |-> "image-tool__image",
   imagePreloader |-> "image-tool__image-preloader",
   imageEl |-> "image-tool__image-picture", caption |-> "image-tool__caption"]

\* static get status()
UiStatus == [EMPTY |-> "empty", UPLOADING |-> "loading", FILLED |-> "filled"]

StatusTypes == <<"EMPTY", "UPLOADING", "FILLED">>

\* the class name `${this.CSS.wrapper}--${suffix}`
ModifierClass(suffix) == CSS.wrapper \o "--" \o suffix

\* DOMTokenList.toggle(token), without the force argument
ToggleClassUnforced(list, token, force) ==
  IF token \in list THEN list \ {token} ELSE list \cup {token}

\* DOMTokenList.toggle(token, force)
ToggleClass(list, token, force) ==
  IF force THEN list \cup {token} ELSE list \ {token}

\* toggleStatus(status): the loop over the three members of Ui.status
RECURSIVE ToggleFrom(_, _, _)
ToggleFrom(list, status, i) ==
  IF i > Len(StatusTypes) THEN list
  ELSE ToggleFrom(ToggleClass(list, ModifierClass(UiStatus[StatusTypes[i]]),
                              status = UiStatus[StatusTypes[i]]),
                  status, i + 1)

toggleStatus(list, status) == ToggleFrom(list, status, 1)

\* make(tagName, classNames, attributes); listeners are added afterwards
make(tagName, className, attributes) ==
  [tagName |-> tagName, className |-> className, attributes |-> attributes,
   listeners |-> {}]

addEventListener(el, eventName) ==
  [el EXCEPT !.listeners = @ \cup {eventName}]

\* the preloader is the first child of the image container
PreloaderAt == 1

setBackgroundImage(children, value) ==
  [children EXCEPT ![PreloaderAt].attributes.backgroundImage = value]

\* the tag picked by /\.mp4/ and /\.mp3/, without the $ anchors
TagForContains(url) ==
  IF Includes(url, S(".mp3")) THEN "AUDIO"
  ELSE IF Includes(url, S(".mp4")) THEN "VIDEO" ELSE "IMG"

\* the tag fillImage picks for a URL
TagFor(url) ==
  LET tag == IF EndsWith(url, S(".mp4")) THEN "VIDEO" ELSE "IMG"
  IN IF EndsWith(url, S(".mp3")) THEN "AUDIO" ELSE tag

\* the event fillImage listens to
EventNameForLoadStart(tag) ==
  IF tag = "VIDEO" \/ tag = "AUDIO" THEN "loadstart" ELSE "load"

EventNameFor(tag) ==
  IF tag = "VIDEO" \/ tag = "AUDIO" THEN "loadeddata" ELSE "load"

\* the URLs fillImage is called with: a video, an audio file, an image in the
\* storage, a storage URL with a broken escape, and a URL with '.mp4' inside
UiUrls ==
  { S("a.mp4"), S("a.mp3"), StorageHead \o S("a.png"), StorageHead \o S("%.png"),
    S("a.mp4?v") }

\* the srcset of fillImage; it throws when one of the getResizedUrl calls does
SrcSet(url) ==
  LET resized == [i \in 1..Len(Widths) |->
                    getResizedUrl(url, ResizeRequest(Widths[i], "cover"))]
  IN IF \E i \in 1..Len(Widths) : resized[i].threw THEN URIError
     ELSE Returned(Join([i \in 1..Len(Widths) |->
                           resized[i].value \o S(" ") \o Digits(Widths[i]) \o S("w")],
                        S(", ")))

\* SrcSet for the URLs fillImage is called with, computed once
SrcSets == [url \in UiUrls |-> SrcSet(url)]

\* the attributes object of fillImage, once the srcset is known
Attributes(url, tag, srcSet) ==
  [src |-> url]
  @@ (IF optimizeImages THEN [srcset |-> srcSet, sizes |-> S("100vw")] ELSE <<>>)
  @@ (IF tag = "VIDEO" THEN [playsinline |-> TRUE, controls |-> TRUE] ELSE <<>>)
  @@ (IF tag = "AUDIO" THEN [controls |-> TRUE] ELSE <<>>)

\* what the Ui is called with
ToolFiles == {"undefined", "empty object", "file"}

PreviewSources == {S("blob:1")}

CaptionTexts == {"", "caption"}

TuneNames == {"withBorder", "stretched"}

\* the events a media element receives from the browser
BrowserEvents(tagName) ==
  IF tagName = "IMG" THEN {"load", "error"} ELSE {"loadstart", "loadeddata", "error"}

\* the state a getResizedUrl call is in when none is modelled
NoCall ==
  /\ inHead = <<>> /\ inPath = <<>> /\ inLevel = 0
  /\ originalImageUrl = <<>>
  /\ imageEditRequest = ResizeRequest(Widths[1], "cover")
  /\ pc = "idle"
  /\ resizedUrl = <<>>

\* constructor({ api, config, onSelectFile, readOnly })
Constructed(ro, optimize) ==
  /\ readOnly = ro
  /\ optimizeImages = optimize
  /\ appendCaptionOnDemand = ro
  /\ classList = {CSS.baseClass, CSS.wrapper}
  /\ imageContainer =
       <<make("DIV", CSS.imagePreloader, [backgroundImage |-> <<>>])>>
  /\ wrapperChildren =
       IF ro THEN <<"imageContainer", "fileButton">>
       ELSE <<"imageContainer", "caption", "fileButton">>
  /\ imageEl = 0
  /\ captionHTML = ""
  /\ lastStatus = "none"
  /\ fillCalls = 0

Init ==
  /\ \E ro \in BOOLEAN, optimize \in BOOLEAN : Constructed(ro, optimize)
  /\ NoCall

\* what a toggleStatus call does to the state
ToggleStatusTo(status) ==
  /\ classList' = toggleStatus(classList, status)
  /\ lastStatus' = status

\* toggleStatus(status), called from outside
ToggleStatus(status) ==
  /\ ToggleStatusTo(status)
  /\ UNCHANGED <<readOnly, optimizeImages, appendCaptionOnDemand, wrapperChildren,
                 imageContainer, imageEl, captionHTML, fillCalls, urlVars>>

\* render(toolData)
Render(file) ==
  /\ IF file \in {"undefined", "empty object"}
     THEN ToggleStatusTo(UiStatus.EMPTY)
     ELSE ToggleStatusTo(UiStatus.UPLOADING)
  /\ UNCHANGED <<readOnly, optimizeImages, appendCaptionOnDemand, wrapperChildren,
                 imageContainer, imageEl, captionHTML, fillCalls, urlVars>>

\* showPreloader(src)
ShowPreloader(src) ==
  /\ imageContainer' = setBackgroundImage(imageContainer, S("url(") \o src \o S(")"))
  /\ ToggleStatusTo(UiStatus.UPLOADING)
  /\ UNCHANGED <<readOnly, optimizeImages, appendCaptionOnDemand, wrapperChildren,
                 imageEl, captionHTML, fillCalls, urlVars>>

\* hidePreloader()
HidePreloader ==
  /\ imageContainer' = setBackgroundImage(imageContainer, <<>>)
  /\ ToggleStatusTo(UiStatus.EMPTY)
  /\ UNCHANGED <<readOnly, optimizeImages, appendCaptionOnDemand, wrapperChildren,
                 imageEl, captionHTML, fillCalls, urlVars>>

\* the element fillImage composes: make, then addEventListener
ComposedElement(url, srcSet) ==
  addEventListener(make(TagFor(url), CSS.imageEl, Attributes(url, TagFor(url), srcSet)),
                   EventNameFor(TagFor(url)))

\* fillImage(url): when getResizedUrl throws, the exception leaves fillImage
\* before the element is made
FillImage(url) ==
  /\ fillCalls < MaxFill
  /\ fillCalls' = fillCalls + 1
  /\ LET srcSet == IF optimizeImages THEN SrcSets[url] ELSE Returned(<<>>) IN
     IF srcSet.threw
     THEN UNCHANGED <<imageContainer, imageEl>>
     ELSE /\ imageContainer' = Append(imageContainer, ComposedElement(url, srcSet.value))
          /\ imageEl' = Len(imageContainer) + 1
  /\ UNCHANGED <<readOnly, optimizeImages, appendCaptionOnDemand, classList,
                 wrapperChildren, captionHTML, lastStatus, urlVars>>

\* fillCaption(text)
FillCaption(text) ==
  /\ IF text # ""
     THEN /\ wrapperChildren' = IF appendCaptionOnDemand
                                THEN Append(wrapperChildren, "caption")
                                ELSE wrapperChildren
          /\ appendCaptionOnDemand' = FALSE
          /\ captionHTML' = text
     ELSE UNCHANGED <<wrapperChildren, appendCaptionOnDemand, captionHTML>>
  /\ UNCHANGED <<readOnly, optimizeImages, classList, imageContainer, imageEl,
                 lastStatus, fillCalls, urlVars>>

\* applyTune(tuneName, status)
ApplyTune(tuneName, status) ==
  /\ classList' = ToggleClass(classList, ModifierClass(tuneName), status)
  /\ UNCHANGED <<readOnly, optimizeImages, appendCaptionOnDemand, wrapperChildren,
                 imageContainer, imageEl, captionHTML, lastStatus, fillCalls, urlVars>>

\* the browser dispatches an event to the i-th child of the image container;
\* the listener fillImage added runs when the event is the one it listens to
DispatchEvent(i, eventName) ==
  /\ i \in (PreloaderAt + 1)..Len(imageContainer)
  /\ eventName \in BrowserEvents(imageContainer[i].tagName)
  /\ IF eventName \in imageContainer[i].listeners
     THEN /\ ToggleStatusTo(UiStatus.FILLED)
          /\ imageContainer' = setBackgroundImage(imageContainer, <<>>)
     ELSE UNCHANGED <<classList, lastStatus, imageContainer>>
  /\ UNCHANGED <<readOnly, optimizeImages, appendCaptionOnDemand, wrapperChildren,
                 imageEl, captionHTML, fillCalls, urlVars>>

\* the calls a block makes while an image is uploaded and shown, and the media events
NextUi ==
  \/ \E file \in ToolFiles : Render(file)
  \/ \E src \in PreviewSources : ShowPreloader(src)
  \/ HidePreloader
  \/ \E url \in UiUrls : FillImage(url)
  \/ \E text \in CaptionTexts : FillCaption(text)
  \/ \E i \in 1..(MaxFill + 1), eventName \in {"load", "loadstart", "loadeddata", "error"} :
       DispatchEvent(i, eventName)

Next ==
  \/ NextUi
  \/ \E status \in {UiStatus.EMPTY, UiStatus.UPLOADING, UiStatus.FILLED} :
       ToggleStatus(status)
  \/ \E tuneName \in TuneNames, status \in BOOLEAN : ApplyTune(tuneName, status)

\* every method of the Ui and the media events
Spec == Init /\ [][Next]_vars

\* render, showPreloader, hidePreloader, fillImage, fillCaption and the media events
SpecUi == Init /\ [][NextUi]_vars

(***************************************************************************)
(* A call of getResizedUrl on a URL and an edit request.                   *)
(***************************************************************************)
\* head followed by the path encoded level times
InputUrl(head, path, level) == head \o EncodedPath(path, level)

\* every path after the storage head, a path of at most one character after
\* the other heads
InitUrl ==
  /\ Constructed(FALSE, FALSE)
  /\ inHead \in Heads
  /\ inPath \in Paths
  /\ inHead = StorageHead \/ Len(inPath) <= 1
  /\ inLevel \in 0..MaxLevel
  /\ originalImageUrl = InputUrl(inHead, inPath, inLevel)
  /\ imageEditRequest \in EditRequests
  /\ pc = "call"
  /\ resizedUrl = <<>>

GetResizedUrl ==
  /\ pc = "call"
  /\ LET outcome == getResizedUrl(originalImageUrl, imageEditRequest) IN
     /\ pc' = IF outcome.threw THEN "threw" ELSE "returned"
     /\ resizedUrl' = outcome.value
  /\ UNCHANGED <<inHead, inPath, inLevel, originalImageUrl, imageEditRequest, uiVars>>

NextUrl == GetResizedUrl

SpecUrl == InitUrl /\ [][NextUrl]_vars

(***************************************************************************)
(* Properties.                                                              *)
(***************************************************************************)
\* the status markers that are active on the wrapper
StatusMarkers ==
  {s \in {UiStatus.EMPTY, UiStatus.UPLOADING, UiStatus.FILLED} :
     ModifierClass(s) \in classList}

\* the media elements: the children of the image container after the preloader
MediaPositions == (PreloaderAt + 1)..Len(imageContainer)

\* C1: after every toggleStatus call exactly one of the three status markers
\* is active, the one of the latest argument; and a toggleStatus call with the
\* status of the call before it leaves the wrapper's classes as they are.
ExactlyOneStatusMarker ==
  /\ [](lastStatus # "none" => StatusMarkers = {lastStatus})
  /\ [][\A status \in {UiStatus.EMPTY, UiStatus.UPLOADING, UiStatus.FILLED} :
          (ToggleStatus(status) /\ lastStatus = status) => classList' = classList]_vars

\* a toggleStatus call replaced the marker of an earlier status, with a tune applied
ExactlyOneStatusMarkerWitness ==
  /\ lastStatus = UiStatus.FILLED
  /\ StatusMarkers = {UiStatus.FILLED}
  /\ ModifierClass("stretched") \in classList
  /\ imageContainer[PreloaderAt].attributes.backgroundImage = <<>>
  /\ fillCalls > 0

\* C2: getResizedUrl raises no error, whatever the URL.
GetResizedUrlNeverThrows == pc # "threw"

\* the host of a URL: what follows '://' up to the next '/', '?' or '#'
HostOf(url) ==
  LET start == IndexOf(url, S("://")) IN
  IF start = 0 THEN <<>>
  ELSE
    LET rest == SubSeq(url, start + 3, Len(url))
        ends == {i \in 1..Len(rest) : rest[i] \in {Ord("/"), Ord("?"), Ord("#")}}
        stop == IF ends = {} THEN Len(rest) + 1
                ELSE CHOOSE i \in ends : \A j \in ends : i <= j
    IN SubSeq(rest, 1, stop - 1)

\* C3: a URL whose host is not the storage host is returned unchanged.
RewritesOnlyStorageHost ==
  (pc = "returned" /\ HostOf(originalImageUrl) # s3Hostname)
    => resizedUrl = originalImageUrl

\* the part of the URL after '<storage-host>/'
PathOf(url) == Split(url, s3Hostname \o S("/"))[2]

\* the URL names the storage host followed by '/' once, and every segment of
\* what follows is a valid percent-encoding
WellFormedStorageUrl(url) ==
  /\ Includes(url, s3Hostname)
  /\ Len(Split(url, s3Hostname \o S("/"))) = 2
  /\ LET segments == Split(PathOf(url), S("/"))
     IN \A i \in 1..Len(segments) : ~decodeURIComponent(segments[i]).threw

\* the segments of the path, each URL-decoded, rejoined with '/'
DecodedPath(url) ==
  LET segments == Split(PathOf(url), S("/"))
  IN Join([i \in 1..Len(segments) |-> decodeURIComponent(segments[i]).value], S("/"))

\* C4: for a well-formed storage URL the result is '<cdn-host>/<b64>', and
\* <b64> base64-decoded, read as UTF-8 and parsed as JSON is
\* {bucket: the bucket name, key: the decoded path, edits: the edit request}.
CdnUrlCarriesRequest ==
  (pc # "call" /\ WellFormedStorageUrl(originalImageUrl))
    => /\ pc = "returned"
       /\ LET request == ReadCdnUrl(resizedUrl) IN
          /\ request.ok
          /\ request.v =
               JObj(<<[name |-> S("bucket"), value |-> JStr(s3BucketName)],
                      [name |-> S("key"), value |-> JStr(DecodedPath(originalImageUrl))],
                      [name |-> S("edits"), value |-> imageEditRequest]>>)

\* the key of a rewritten URL holds '/', a non-ASCII character and a quote
CdnUrlCarriesRequestWitness ==
  /\ pc = "returned"
  /\ inHead = StorageHead
  /\ inLevel = 1
  /\ inPath = <<233, Ord("/"), 34>>
  /\ resizedUrl # originalImageUrl

\* the key member of a request
KeyOf(request) == request.m[2].value.s

\* C5: a path whose segments were encoded once yields the raw path as key, one
\* encoded twice yields the once-encoded path: one level is removed.
DecodedExactlyOnce ==
  (pc # "call" /\ inHead = StorageHead /\ inLevel >= 1)
    => /\ pc = "returned"
       /\ LET request == ReadCdnUrl(resizedUrl) IN
          /\ request.ok
          /\ KeyOf(request.v) = EncodedPath(inPath, inLevel - 1)

\* a twice-encoded '%' came out once-encoded
DecodedExactlyOnceWitness ==
  /\ pc = "returned"
  /\ inHead = StorageHead
  /\ inLevel = 2
  /\ inPath = <<Percent, 233>>
  /\ ReadCdnUrl(resizedUrl).ok
  /\ KeyOf(ReadCdnUrl(resizedUrl).v) = S("%25%C3%A9")

\* C6: the empty URL, a URL without the storage host's text, and a URL that
\* '<storage-host>/' does not split in exactly two parts are returned unchanged.
PassthroughUnchanged ==
  (/\ pc # "call"
   /\ \/ Len(originalImageUrl) = 0
      \/ ~Includes(originalImageUrl, s3Hostname)
      \/ Len(Split(originalImageUrl, s3Hostname \o S("/"))) # 2)
    => (pc = "returned" /\ resizedUrl = originalImageUrl)

\* a URL with '<storage-host>/' twice came back unchanged
PassthroughUnchangedWitness ==
  /\ pc = "returned"
  /\ Len(Split(originalImageUrl, s3Hostname \o S("/"))) = 3
  /\ resizedUrl = originalImageUrl

\* the element kind the suffix of a URL asks for
KindBySuffix(url) ==
  CASE EndsWith(url, S(".mp4")) -> "VIDEO"
    [] EndsWith(url, S(".mp3")) -> "AUDIO"
    [] OTHER -> "IMG"

\* C7: every element fillImage made is a video when its URL ends in '.mp4',
\* an audio element when it ends in '.mp3', an image otherwise.
KindFollowsSuffix ==
  \A i \in MediaPositions :
    imageContainer[i].tagName = KindBySuffix(imageContainer[i].attributes.src)

\* a video was made for 'a.mp4' and an image for 'a.mp4?v'
KindFollowsSuffixWitness ==
  /\ \E i \in MediaPositions :
       /\ imageContainer[i].tagName = "VIDEO"
       /\ imageContainer[i].attributes.src = S("a.mp4")
  /\ \E i \in MediaPositions :
       /\ imageContainer[i].tagName = "IMG"
       /\ imageContainer[i].attributes.src = S("a.mp4?v")

\* C8: an element carries srcset and sizes exactly when the flag is on and it
\* is an image.
SrcsetOnlyOnImages ==
  \A i \in MediaPositions :
    LET el == imageContainer[i] IN
    ("srcset" \in DOMAIN el.attributes /\ "sizes" \in DOMAIN el.attributes)
      <=> (optimizeImages /\ el.tagName = "IMG")

\* the event that tells a media element is ready
ReadyEvent(tagName) == IF tagName = "IMG" THEN "load" ELSE "loadeddata"

\* C9: the FILLED marker appears only in a step that dispatches its ready
\* event to an element fillImage made, and fillImage leaves the status alone.
FilledOnlyOnReadyEvent ==
  /\ [][(ModifierClass(UiStatus.FILLED) \notin classList
         /\ ModifierClass(UiStatus.FILLED) \in classList')
        => \E i \in MediaPositions :
             DispatchEvent(i, ReadyEvent(imageContainer[i].tagName))]_vars
  /\ [][(\E url \in UiUrls : FillImage(url))
        => (classList' = classList /\ lastStatus' = lastStatus)]_vars

\* a video became FILLED after its element had waited in the UPLOADING status
FilledOnlyOnReadyEventWitness ==
  /\ StatusMarkers = {UiStatus.FILLED}
  /\ imageEl > 0
  /\ imageContainer[imageEl].tagName = "VIDEO"
  /\ \E i \in MediaPositions : imageContainer[i].tagName = "IMG"

\* C10: the image container holds one media element per fillImage call,
\* nodes.imageEl is the latest, and every element keeps its listener.
OneElementPerFillImage ==
  /\ Len(imageContainer) - PreloaderAt = fillCalls
  /\ (fillCalls > 0 => imageEl = Len(imageContainer))
  /\ \A i \in MediaPositions :
       ReadyEvent(imageContainer[i].tagName) \in imageContainer[i].listeners

====
